---- MODULE Spec2Model ----
(***************************************************************************)
(* express-graceful-exit: the shutdown orchestration of one Express app /  *)
(* http.Server pair, as implemented by src/src/lib/middleware.ts (class    *)
(* Middleware) and src/src/lib/graceful-exit.js (gracefulExitHandler,      *)
(* middleware, trackConnections).                                          *)
(*                                                                         *)
(* Time is the value of Date.now() in milliseconds.  It advances from one  *)
(* pending timer deadline to another; a timer callback runs at or after    *)
(* its deadline, never before it.  Every action is one run-to-completion   *)
(* step of the Node.js event loop: the synchronous code between two awaits *)
(* or inside one event callback.                                           *)
(***************************************************************************)
EXTENDS Integers, Sequences, FiniteSets, TLC

\* ------------------------------------------------------------------ bounds
NumApps == 2          \* Express apps in the process
MaxConns == 2         \* transport connections a server can hold at once
StartTime == 1000     \* Date.now() when the model starts
\* the delays, in ms, that callers pass in the options
MinDelayShort == 20   \* a serverCloseMinDelay below the poll interval
MinDelayLong == 120   \* a serverCloseMinDelay above MaxDelay
MaxDelay == 100       \* serverCloseMaxDelay
HardShort == 80       \* a hardExitTimeout below MaxDelay
HardLong == 170       \* a hardExitTimeout above MaxDelay
MaxTrackerOpens == 3  \* direct trackSocketOpen calls on one Middleware

Apps == 1..NumApps
Conns == 1..MaxConns
TrackerIds == Conns

\* ------------------------------------------------- JavaScript value helpers
\* An optional value is <<>> (undefined) or <<v>>.
Undefined == <<>>
Some(v) == <<v>>
IsDef(x) == x # <<>>
Val(x) == x[1]
Max(x, y) == IF x >= y THEN x ELSE y

\* setTimeout(cb, ms): Node runs cb no sooner than ms milliseconds later, and
\* treats a missing delay or one below 1 as 1.  The argument is optional.
TimerDelay(ms) == IF IsDef(ms) /\ Val(ms) >= 1 THEN Val(ms) ELSE 1

\* `sleep(50)` of the poll loop
PollInterval == 50

\* --------------------------------------------------------------- options
DefaultHardExitTimeout == 130000
DefaultExitDelay == 10
DefaultServerCloseMaxDelay == 60000

DefaultOptions ==
  [ errorDuringExit          |-> Some(TRUE),
    performLastRequest       |-> Some(TRUE),
    log                      |-> Some(FALSE),
    logger                   |-> Some("console.log"),
    getRejectionError        |-> Some("default"),
    hardExitTimeout          |-> Some(DefaultHardExitTimeout),
    exitProcess              |-> Some(TRUE),
    exitDelay                |-> Some(DefaultExitDelay),
    destroySocketsOnHardExit |-> Some(FALSE),
    serverCloseMaxDelay      |-> Some(DefaultServerCloseMaxDelay),
    callback                 |-> Undefined,
    serverCloseMinDelay      |-> Undefined,
    socketio                 |-> Undefined,
    suicideTimeout           |-> Undefined,
    force                    |-> Undefined ]

OptionFields == DOMAIN DefaultOptions

\* The empty options object `{}`
NoOptions == [f \in OptionFields |-> Undefined]

\* _.defaults(options, DefaultOptions): fills in the properties that are undefined
Defaults(options, defaults) ==
  [f \in OptionFields |-> IF IsDef(options[f]) THEN options[f] ELSE defaults[f]]

\* JavaScript truthiness of an optional boolean option
IsTrue(x) == IsDef(x) /\ Val(x) = TRUE

\* _.isFunction(x) of a callback / getRejectionError option: the value is one of
\* the functions "ok", "throws" (a function that raises), "default"
\* (DefaultOptions.getRejectionError), "custom", "returnsUndefined", or it is
\* "notFunction" (any other truthy value)
IsFunction(x) == IsDef(x) /\ Val(x) # "notFunction"

\* lines 85-136 of initiateGracefulExit: the resolved this._options.
\* _.defaults fills in the object it is given and returns it, so after line 86
\* `options` and `this._options` are one object: the tests of lines 89 and
\* 106-113 read the merged values.
ResolveOptionsLogImplied(options) ==
  LET merged == Defaults(options, DefaultOptions) IN
  IF IsDef(merged.logger) /\ ~IsDef(merged.log)
    THEN [merged EXCEPT !.log = Some(TRUE)] ELSE merged

ResolveOptionsRenamed(options, o) ==
  LET o1 == IF ~IsDef(o.hardExitTimeout)
              THEN [o EXCEPT !.hardExitTimeout = options.suicideTimeout] ELSE o
  IN IF ~IsDef(o1.destroySocketsOnHardExit)
       THEN [o1 EXCEPT !.destroySocketsOnHardExit = options.force] ELSE o1

\* the resolution without the comparison of the two delays (lines 128-136)
ResolveOptionsMinDelay_NoClamp(o) == o

ResolveOptionsMinDelay(o) ==
  IF IsDef(o.serverCloseMinDelay) /\ IsDef(o.serverCloseMaxDelay)
     /\ Val(o.serverCloseMinDelay) > Val(o.serverCloseMaxDelay)
    THEN [o EXCEPT !.serverCloseMinDelay = o.serverCloseMaxDelay] ELSE o

ResolveOptions(options) ==
  ResolveOptionsMinDelay(ResolveOptionsRenamed(options, ResolveOptionsLogImplied(options)))

\* ------------------------------------------------------------------ state
VARIABLES
  now,          \* Date.now()
  userOptions,  \* the options object the program's signal handler passes
  apps,         \* per Express app: its Middleware object, its http.Server, its
                \* pending continuations and timers, and the calls it has made
  resp,         \* what the middleware did with the request handled in the last step
  lastServed    \* scenarios: the client ended its connection after its last
                \* request was passed on

vars == <<now, userOptions, apps, resp, lastServed>>

\* new Middleware(): lines 35-44
NewMiddleware ==
  [ exitRequestedDate |-> 0,
    serverClosedOnce  |-> FALSE,
    sockets           |-> {},          \* registry: set of <<trackerId, connection>>
    socketCount       |-> 0,
    options           |-> DefaultOptions,
    hardExitTimer     |-> Undefined,   \* the Timeout handle
    connectionsClosed |-> FALSE,
    draining          |-> FALSE,
    trackingSockets   |-> FALSE,
    exitCalled        |-> FALSE ]

\* a net.Socket as the module sees it
NewSocket ==
  [ lastRequestStarted |-> Undefined,
    trackerId          |-> Undefined,
    closeListeners     |-> 0,          \* 'close' listeners added by trackConnections
    destroyed          |-> FALSE,
    finalPasses        |-> 0 ]         \* requests passed to the app while draining

NewApp(installed) ==
  [ installed     |-> installed,       \* app.get(APP_MIDDLEWARE_NAME) is an object
    mw            |-> NewMiddleware,
    \* the initiateGracefulExit coroutine
    pc            |-> "idle",
    msSinceExitRequested |-> 0,
    connectionCount      |-> 0,
    wake          |-> 0,               \* deadline of the sleep the coroutine awaits
    \* timers of the Node runtime
    hardTimerAt   |-> Undefined,       \* deadline of the armed hard-exit timeout
    exitSleeps    |-> {},              \* exit() calls awaiting sleep(exitDelay)
    \* the http.Server
    listening     |-> TRUE,
    trackers      |-> 0,               \* 'connection' listeners of trackConnections
    connections   |-> {},
    sock          |-> [c \in Conns |-> NewSocket],
    \* calls made on the collaborators, in order
    trackOpens    |-> 0,               \* direct trackSocketOpen calls
    trackCloses   |-> 0,               \* direct trackSocketClose calls that found their socket
    handlerCalls  |-> 0,               \* gracefulExitHandler calls: 0, 1, or 2 for more
    drainCount    |-> 0,
    serverCloseCalls  |-> 0,
    callbackCalls     |-> <<>>,
    processExitCalls  |-> <<>>,
    socketioCloseCalls |-> 0,
    socketioDisconnects |-> 0,
    logSinks      |-> {},              \* the logger functions that were handed a message
    caught        |-> FALSE,           \* the catch of initiateGracefulExit ran
    unhandled     |-> FALSE,           \* a rejected promise nobody awaits
    exc           |-> FALSE ]          \* an exception is propagating

\* --------------------------------------------------- Middleware (orchestrator)
\* logger(str), lines 67-71
logger(s) ==
  IF IsTrue(s.mw.options.log) /\ IsDef(s.mw.options.logger)
    THEN [s EXCEPT !.logSinks = @ \cup {Val(s.mw.options.logger)}] ELSE s

\* the catch block of initiateGracefulExit, lines 172-174
Catch(s) ==
  IF s.exc THEN [s EXCEPT !.exc = FALSE, !.caught = TRUE, !.pc = "caught"] ELSE s

\* a rejection of the promise of `void this.hardExitHandler()`, line 218
Unawaited(s) ==
  IF s.exc THEN [s EXCEPT !.exc = FALSE, !.unhandled = TRUE] ELSE s

\* exit(code) without its exitCalled guard (lines 242-244): every call runs the
\* terminal action
exit_Unguarded(s, code) ==
  LET s1 == [s EXCEPT !.mw.exitCalled = TRUE]
      cb == s1.mw.options.callback
      s2 == IF IsFunction(cb)
              THEN [s1 EXCEPT !.callbackCalls = Append(@, code),
                              !.exc = (Val(cb) = "throws")]
              ELSE s1
      s3 == IF IsDef(s2.mw.hardExitTimer)
              THEN [s2 EXCEPT !.mw.hardExitTimer = Undefined, !.hardTimerAt = Undefined]
              ELSE s2
  IN IF s2.exc THEN s2
     ELSE IF IsTrue(s3.mw.options.exitProcess)
       THEN [logger(s3) EXCEPT !.exitSleeps =
               @ \cup {[at |-> now + TimerDelay(s3.mw.options.exitDelay), code |-> code]}]
       ELSE s3

\* exit(code) without the test of exitProcess (line 255): the process is
\* terminated whatever the option says
exit_AlwaysExits(s, code) ==
  IF s.mw.exitCalled THEN s
  ELSE
    LET s1 == [s EXCEPT !.mw.exitCalled = TRUE]
        cb == s1.mw.options.callback
        s2 == IF IsFunction(cb)
                THEN [s1 EXCEPT !.callbackCalls = Append(@, code),
                                !.exc = (Val(cb) = "throws")]
                ELSE s1
        s3 == IF IsDef(s2.mw.hardExitTimer)
                THEN [s2 EXCEPT !.mw.hardExitTimer = Undefined, !.hardTimerAt = Undefined]
                ELSE s2
    IN IF s2.exc THEN s2
       ELSE [logger(s3) EXCEPT !.exitSleeps =
               @ \cup {[at |-> now + TimerDelay(s3.mw.options.exitDelay), code |-> code]}]

\* exit(code) without clearTimeout(this.hardExitTimer) (lines 252-254)
exit_KeepsTimer(s, code) ==
  IF s.mw.exitCalled THEN s
  ELSE
    LET s1 == [s EXCEPT !.mw.exitCalled = TRUE]
        cb == s1.mw.options.callback
        s2 == IF IsFunction(cb)
                THEN [s1 EXCEPT !.callbackCalls = Append(@, code),
                                !.exc = (Val(cb) = "throws")]
                ELSE s1
    IN IF s2.exc THEN s2
       ELSE IF IsTrue(s2.mw.options.exitProcess)
         THEN [logger(s2) EXCEPT !.exitSleeps =
                 @ \cup {[at |-> now + TimerDelay(s2.mw.options.exitDelay), code |-> code]}]
         ELSE s2

\* exit(code) clearing the hard-exit timer only when the process is not to
\* be ended (clearTimeout of lines 252-254 moved to an else of line 255)
exit_ClearsOnlyWhenStaying(s, code) ==
  IF s.mw.exitCalled THEN s
  ELSE
    LET s1 == [s EXCEPT !.mw.exitCalled = TRUE]
        cb == s1.mw.options.callback
        s2 == IF IsFunction(cb)
                THEN [s1 EXCEPT !.callbackCalls = Append(@, code),
                                !.exc = (Val(cb) = "throws")]
                ELSE s1
    IN IF s2.exc THEN s2
       ELSE IF IsTrue(s2.mw.options.exitProcess)
         THEN [logger(s2) EXCEPT !.exitSleeps =
                 @ \cup {[at |-> now + TimerDelay(s2.mw.options.exitDelay), code |-> code]}]
         ELSE [s2 EXCEPT !.mw.hardExitTimer = Undefined, !.hardTimerAt = Undefined]

\* exit(code) calling whatever callback option is set, without _.isFunction
\* (line 247): calling a value that is not a function raises a TypeError
exit_Unchecked(s, code) ==
  IF s.mw.exitCalled THEN s
  ELSE
    LET s1 == [s EXCEPT !.mw.exitCalled = TRUE]
        cb == s1.mw.options.callback
        s2 == IF IsFunction(cb)
                THEN [s1 EXCEPT !.callbackCalls = Append(@, code),
                                !.exc = (Val(cb) = "throws")]
                ELSE IF IsDef(cb) THEN [s1 EXCEPT !.exc = TRUE]
                ELSE s1
        s3 == IF IsDef(s2.mw.hardExitTimer)
                THEN [s2 EXCEPT !.mw.hardExitTimer = Undefined, !.hardTimerAt = Undefined]
                ELSE s2
    IN IF s2.exc THEN s2
       ELSE IF IsTrue(s3.mw.options.exitProcess)
         THEN [logger(s3) EXCEPT !.exitSleeps =
                 @ \cup {[at |-> now + TimerDelay(s3.mw.options.exitDelay), code |-> code]}]
         ELSE s3

\* exit(code), lines 241-262, up to `await sleep(exitDelay)`
exit(s, code) ==
  IF s.mw.exitCalled THEN s
  ELSE
    LET s1 == [s EXCEPT !.mw.exitCalled = TRUE]
        cb == s1.mw.options.callback
        s2 == IF IsFunction(cb)
                THEN [s1 EXCEPT !.callbackCalls = Append(@, code),
                                !.exc = (Val(cb) = "throws")]
                ELSE s1
        s3 == IF IsDef(s2.mw.hardExitTimer)
                THEN [s2 EXCEPT !.mw.hardExitTimer = Undefined, !.hardTimerAt = Undefined]
                ELSE s2
    IN IF s2.exc THEN s2
       ELSE IF IsTrue(s3.mw.options.exitProcess)
         THEN [logger(s3) EXCEPT !.exitSleeps =
                 @ \cup {[at |-> now + TimerDelay(s3.mw.options.exitDelay), code |-> code]}]
         ELSE s3

\* disconnectSocketIOClients, lines 177-204
disconnectSocketIOClients(s) ==
  IF Val(s.mw.options.socketio) = "invalid"
    THEN [s EXCEPT !.exc = TRUE]
    ELSE [s EXCEPT !.socketioCloseCalls = @ + 1, !.socketioDisconnects = @ + 1]

\* callServerClose arming the hard-exit timer with the whole hardExitTimeout,
\* not with what is left of it (line 216)
callServerClose_TimerFromNow(s) ==
  IF s.mw.serverClosedOnce THEN [s EXCEPT !.pc = "done"]
  ELSE
    LET s1 == [s EXCEPT !.mw.serverClosedOnce = TRUE]
        s2 == IF IsTrue(s1.mw.options.exitProcess)
                THEN [s1 EXCEPT !.mw.hardExitTimer = Some("Timeout"),
                                !.hardTimerAt = Some(now + TimerDelay(s1.mw.options.hardExitTimeout))]
                ELSE s1
    IN [logger(s2) EXCEPT !.listening = FALSE, !.serverCloseCalls = @ + 1, !.pc = "closing"]

\* callServerClose, lines 206-226, up to `await server.close()`
callServerClose(s) ==
  IF s.mw.serverClosedOnce THEN [s EXCEPT !.pc = "done"]
  ELSE
    LET msSinceExitRequested == now - s.mw.exitRequestedDate
        hard == s.mw.options.hardExitTimeout
        remainingHardExitDelay ==
          IF IsDef(hard) THEN Some(Max(0, Val(hard) - msSinceExitRequested)) ELSE Undefined
        s1 == [s EXCEPT !.mw.serverClosedOnce = TRUE]
        s2 == IF IsTrue(s1.mw.options.exitProcess)
                THEN [s1 EXCEPT !.mw.hardExitTimer = Some("Timeout"),
                                !.hardTimerAt = Some(now + TimerDelay(remainingHardExitDelay))]
                ELSE s1
    IN [logger(s2) EXCEPT !.listening = FALSE, !.serverCloseCalls = @ + 1, !.pc = "closing"]

\* callServerClose releasing its guard when server.close has completed
\* (serverClosedOnce reset after line 226)
serverClosed_ResetsGuard(s) ==
  LET s0 == logger([s EXCEPT !.mw.serverClosedOnce = FALSE])
      s1 == IF IsDef(s0.mw.options.socketio) THEN disconnectSocketIOClients(s0) ELSE s0
      s2 == [s1 EXCEPT !.mw.connectionsClosed = TRUE]
  IN IF s1.exc THEN Catch(s1)
     ELSE Catch([exit(s2, 0) EXCEPT !.pc = "done"])

\* callServerClose disconnecting the socket.io clients last (lines 230-232
\* moved below line 238)
serverClosed_DisconnectLast(s) ==
  LET s0 == logger(s)
      s1 == [s0 EXCEPT !.mw.connectionsClosed = TRUE]
      s2 == exit(s1, 0)
      s3 == IF ~s2.exc /\ IsDef(s2.mw.options.socketio)
              THEN disconnectSocketIOClients(s2) ELSE s2
  IN IF s3.exc THEN Catch(s3)
     ELSE Catch([s3 EXCEPT !.pc = "done"])

\* callServerClose without its final exit(0) (line 238)
serverClosed_NoExit(s) ==
  LET s0 == logger(s)
      s1 == IF IsDef(s0.mw.options.socketio) THEN disconnectSocketIOClients(s0) ELSE s0
      s2 == [s1 EXCEPT !.mw.connectionsClosed = TRUE]
  IN IF s1.exc THEN Catch(s1)
     ELSE [s2 EXCEPT !.pc = "done"]

\* callServerClose, lines 227-238, resumed when server.close() has completed
serverClosed(s) ==
  LET s0 == logger(s)
      s1 == IF IsDef(s0.mw.options.socketio) THEN disconnectSocketIOClients(s0) ELSE s0
      s2 == [s1 EXCEPT !.mw.connectionsClosed = TRUE]
  IN IF s1.exc THEN Catch(s1)
     ELSE Catch([exit(s2, 0) EXCEPT !.pc = "done"])

\* the poll loop of initiateGracefulExit, lines 155-157, up to `await getConnectionsAsync()`
pollStart(s) ==
  [s EXCEPT !.msSinceExitRequested = now - s.mw.exitRequestedDate, !.pc = "pollQuery"]

\* the loop's exit test without the serverCloseMaxDelay clause (line 161)
shouldBreak_NoMaxDelay(s, connectionCount) ==
  \/ connectionCount <= 0
  \/ IsDef(s.mw.options.hardExitTimeout)
       /\ s.msSinceExitRequested > Val(s.mw.options.hardExitTimeout)

\* the loop's exit test without the connection count clause (line 160)
shouldBreak_NoCount(s, connectionCount) ==
  \/ IsDef(s.mw.options.serverCloseMaxDelay)
       /\ s.msSinceExitRequested > Val(s.mw.options.serverCloseMaxDelay)
  \/ IsDef(s.mw.options.hardExitTimeout)
       /\ s.msSinceExitRequested > Val(s.mw.options.hardExitTimeout)

\* the loop's exit test, lines 159-163
shouldBreak(s, connectionCount) ==
  \/ connectionCount <= 0
  \/ IsDef(s.mw.options.serverCloseMaxDelay)
       /\ s.msSinceExitRequested > Val(s.mw.options.serverCloseMaxDelay)
  \/ IsDef(s.mw.options.hardExitTimeout)
       /\ s.msSinceExitRequested > Val(s.mw.options.hardExitTimeout)

\* lines 157-171, resumed with the connection count
pollResult(s, connectionCount) ==
  LET s1 == [s EXCEPT !.connectionCount = connectionCount] IN
  IF shouldBreak(s1, connectionCount)
    THEN callServerClose(s1)
    ELSE [s1 EXCEPT !.pc = "pollSleep", !.wake = now + TimerDelay(Some(PollInterval))]

\* the delay passed to the sleep of the minimum close delay, lines 146-151
minDelaySleepArg(o) == Undefined

\* initiateGracefulExit arming the hard-exit timer before its first await
\* (the setTimeout of lines 214-221 moved to line 144)
initiateGracefulExit_ArmsTimer(s, options) ==
  LET o  == ResolveOptions(options)
      s0 == logger([s EXCEPT !.mw.exitRequestedDate = now,
                             !.mw.draining = TRUE,
                             !.drainCount = IF s.mw.draining THEN @ ELSE @ + 1,
                             !.mw.options = o])
      s1 == IF IsTrue(o.exitProcess)
              THEN [s0 EXCEPT !.mw.hardExitTimer = Some("Timeout"),
                              !.hardTimerAt = Some(now + TimerDelay(o.hardExitTimeout))]
              ELSE s0
  IN IF IsDef(o.serverCloseMinDelay)
       THEN [s1 EXCEPT !.pc = "minSleep", !.wake = now + TimerDelay(minDelaySleepArg(o))]
       ELSE pollStart(s1)

\* initiateGracefulExit without `this._draining = true` (line 83)
initiateGracefulExit_NotDraining(s, options) ==
  LET o  == ResolveOptions(options)
      s1 == logger([s EXCEPT !.mw.exitRequestedDate = now,
                             !.mw.options = o])
  IN IF IsDef(o.serverCloseMinDelay)
       THEN [s1 EXCEPT !.pc = "minSleep", !.wake = now + TimerDelay(minDelaySleepArg(o))]
       ELSE pollStart(s1)

\* initiateGracefulExit, lines 73-157, up to its first await
initiateGracefulExit(s, options) ==
  LET o  == ResolveOptions(options)
      s1 == logger([s EXCEPT !.mw.exitRequestedDate = now,
                             !.mw.draining = TRUE,
                             !.drainCount = IF s.mw.draining THEN @ ELSE @ + 1,
                             !.mw.options = o])
  IN IF IsDef(o.serverCloseMinDelay)
       THEN [s1 EXCEPT !.pc = "minSleep", !.wake = now + TimerDelay(minDelaySleepArg(o))]
       ELSE pollStart(s1)

\* socket.destroy() on every socket of the registry, lines 274-281
destroySockets(s) ==
  [s EXCEPT !.sock = [c \in Conns |->
     IF \E e \in s.mw.sockets : e[2] = c THEN [@[c] EXCEPT !.destroyed = TRUE] ELSE @[c]]]

\* hardExitHandler reporting success: exit(0) instead of exit(1) at line 286
hardExitHandler_CodeZero(s) ==
  IF s.mw.connectionsClosed
    THEN IF IsTrue(s.mw.options.exitProcess)
           THEN [s EXCEPT !.processExitCalls = Append(@, 1)] ELSE s
    ELSE LET s1 == IF IsTrue(s.mw.options.destroySocketsOnHardExit)
                     THEN destroySockets(s) ELSE s
         IN Unawaited(exit(logger(s1), 0))

\* hardExitHandler giving up when sockets are to be destroyed but were not
\* tracked (a return added to the branch of lines 274-281)
hardExitHandler_RequiresTracking(s) ==
  IF s.mw.connectionsClosed
    THEN IF IsTrue(s.mw.options.exitProcess)
           THEN [s EXCEPT !.processExitCalls = Append(@, 1)] ELSE s
    ELSE IF IsTrue(s.mw.options.destroySocketsOnHardExit) /\ ~s.mw.trackingSockets
      THEN s
    ELSE LET s1 == IF IsTrue(s.mw.options.destroySocketsOnHardExit)
                     THEN destroySockets(s) ELSE s
         IN Unawaited(exit(logger(s1), 1))

\* hardExitHandler without the destroySocketsOnHardExit branch (lines 274-281)
hardExitHandler_NeverDestroys(s) ==
  IF s.mw.connectionsClosed
    THEN IF IsTrue(s.mw.options.exitProcess)
           THEN [s EXCEPT !.processExitCalls = Append(@, 1)] ELSE s
    ELSE Unawaited(exit(logger(s), 1))

\* hardExitHandler, lines 264-287
hardExitHandler(s) ==
  IF s.mw.connectionsClosed
    THEN IF IsTrue(s.mw.options.exitProcess)
           THEN [s EXCEPT !.processExitCalls = Append(@, 1)] ELSE s
    ELSE LET s1 == IF IsTrue(s.mw.options.destroySocketsOnHardExit)
                     THEN destroySockets(s) ELSE s
         IN Unawaited(exit(logger(s1), 1))

\* gracefulExitHandler without the test of gracefulExitHandlerCallTime (lines 70-73)
gracefulExitHandler_Reentrant(s, options) ==
  IF ~s.installed THEN s
  ELSE initiateGracefulExit(s, options)

\* gracefulExitHandler without the test of the middleware object (lines 65-69)
gracefulExitHandler_NoMiddlewareCheck(s, options) ==
  IF s.mw.exitRequestedDate # 0 THEN s
  ELSE initiateGracefulExit(s, options)

\* gracefulExitHandler, src/src/lib/graceful-exit.js lines 62-75
gracefulExitHandler(s, options) ==
  IF ~s.installed THEN s
  ELSE IF s.mw.exitRequestedDate # 0 THEN s
  ELSE initiateGracefulExit(s, options)

\* ------------------------------------------------------- connection tracker
\* base64id.generateId() for the socket c: a random identifier, which no other
\* socket is given.  Identifiers matter only up to renaming, so the socket's
\* own number stands for it.
generateId(s, c) == CHOOSE id \in TrackerIds : id = c

\* trackSocketOpen, lines 327-332
trackSocketOpen(s, c) ==
  LET id == generateId(s, c) IN
  [s EXCEPT !.sock[c].trackerId = Some(id),
            !.mw.sockets = @ \cup {<<id, c>>},
            !.mw.socketCount = @ + 1]

\* trackSocketClose without its test of the identifier and the registry
\* (lines 335-337)
trackSocketClose_Unchecked(s, c) ==
  LET trackerId == s.sock[c].trackerId IN
  [s EXCEPT !.mw.sockets = {e \in @ : ~IsDef(trackerId) \/ e[1] # Val(trackerId)},
            !.mw.socketCount = @ - 1]

\* trackSocketClose, lines 334-342
trackSocketClose(s, c) ==
  LET trackerId == s.sock[c].trackerId IN
  IF ~IsDef(trackerId) \/ ~(\E e \in s.mw.sockets : e[1] = Val(trackerId)) THEN s
  ELSE [s EXCEPT !.mw.sockets = {e \in @ : e[1] # Val(trackerId)},
                 !.mw.socketCount = @ - 1]

\* trackConnections, src/src/lib/graceful-exit.js lines 24-53
trackConnections(s) ==
  IF ~s.installed THEN s
  ELSE [s EXCEPT !.mw.trackingSockets = TRUE, !.trackers = @ + 1]

\* the server's 'connection' event with the listener of trackConnections, lines 46-52
connectionEvent(s, c) ==
  LET s1 == [s EXCEPT !.connections = @ \cup {c}, !.sock[c] = NewSocket] IN
  IF s1.trackers > 0
    THEN [trackSocketOpen(s1, c) EXCEPT !.sock[c].closeListeners = s1.trackers]
    ELSE s1

\* the socket's 'close' event
closeEvent(s, c) ==
  LET s1 == [s EXCEPT !.connections = @ \ {c}]
      s2 == IF s1.sock[c].closeListeners > 0 THEN trackSocketClose(s1, c) ELSE s1
  IN [s2 EXCEPT !.sock[c] = NewSocket]    \* the socket object is garbage

\* ------------------------------------------------------ request interception
\* what the middleware does to a request, in order
SetConnectionClose == "res.set(Connection, close)"
CallNext == "next()"
CallNextDefaultError == "next(Error: Server unavailable, no new requests accepted during shutdown)"
CallNextCustomError == "next(custom error)"
ResEnd == "res.end()"
ThrowTypeError == "throw TypeError"

\* the reject branch without `|| DefaultOptions.getRejectionError(...)`
\* (lines 310-312): next(undefined) is next()
rejectionEffect_NoDefault(o) ==
  IF ~IsFunction(o.getRejectionError) THEN ThrowTypeError
  ELSE IF Val(o.getRejectionError) = "custom" THEN CallNextCustomError
  ELSE IF Val(o.getRejectionError) = "returnsUndefined" THEN CallNext
  ELSE CallNextDefaultError

\* the value of `getRejectionError() || DefaultOptions.getRejectionError(msg)`, lines 309-312
rejectionEffect(o) ==
  IF ~IsFunction(o.getRejectionError) THEN ThrowTypeError
  ELSE IF Val(o.getRejectionError) = "custom" THEN CallNextCustomError
  ELSE CallNextDefaultError

\* handleFinalRequests setting the header only on the requests it refuses
\* (line 297 moved below the return of line 303)
handleFinalRequests_HeaderLate(s, c) ==
  LET lastRequestStarted ==
        IF IsDef(s.sock[c].lastRequestStarted) THEN Val(s.sock[c].lastRequestStarted) ELSE FALSE
      o == s.mw.options
  IN IF IsTrue(o.performLastRequest) /\ lastRequestStarted = FALSE
       THEN [effects |-> <<CallNext>>, lastRequestStarted |-> Some(TRUE)]
     ELSE IF IsTrue(o.errorDuringExit)
       THEN [effects |-> <<SetConnectionClose, rejectionEffect(o)>>,
             lastRequestStarted |-> Some(lastRequestStarted)]
     ELSE [effects |-> <<SetConnectionClose, ResEnd>>,
           lastRequestStarted |-> Some(lastRequestStarted)]

\* handleFinalRequests without `connection.lastRequestStarted = true` (line 302)
handleFinalRequests_FlagNotSet(s, c) ==
  LET lastRequestStarted ==
        IF IsDef(s.sock[c].lastRequestStarted) THEN Val(s.sock[c].lastRequestStarted) ELSE FALSE
      o == s.mw.options
  IN IF IsTrue(o.performLastRequest) /\ lastRequestStarted = FALSE
       THEN [effects |-> <<SetConnectionClose, CallNext>>,
             lastRequestStarted |-> Some(lastRequestStarted)]
     ELSE IF IsTrue(o.errorDuringExit)
       THEN [effects |-> <<SetConnectionClose, rejectionEffect(o)>>,
             lastRequestStarted |-> Some(lastRequestStarted)]
     ELSE [effects |-> <<SetConnectionClose, ResEnd>>,
           lastRequestStarted |-> Some(lastRequestStarted)]

\* handleFinalRequests passing the request on after the silent drop
\* (next() called after res.end(), line 320)
handleFinalRequests_DropCallsNext(s, c) ==
  LET lastRequestStarted ==
        IF IsDef(s.sock[c].lastRequestStarted) THEN Val(s.sock[c].lastRequestStarted) ELSE FALSE
      o == s.mw.options
  IN IF IsTrue(o.performLastRequest) /\ lastRequestStarted = FALSE
       THEN [effects |-> <<SetConnectionClose, CallNext>>, lastRequestStarted |-> Some(TRUE)]
     ELSE IF IsTrue(o.errorDuringExit)
       THEN [effects |-> <<SetConnectionClose, rejectionEffect(o)>>,
             lastRequestStarted |-> Some(lastRequestStarted)]
     ELSE [effects |-> <<SetConnectionClose, ResEnd, CallNext>>,
           lastRequestStarted |-> Some(lastRequestStarted)]

\* handleFinalRequests keeping lastRequestStarted on the Middleware object
\* instead of on the request's socket (lines 290-302)
handleFinalRequests_SharedFlag(s, c) ==
  LET lastRequestStarted == \E d \in Conns : s.sock[d].lastRequestStarted = Some(TRUE)
      o == s.mw.options
  IN IF IsTrue(o.performLastRequest) /\ lastRequestStarted = FALSE
       THEN [effects |-> <<SetConnectionClose, CallNext>>, lastRequestStarted |-> Some(TRUE)]
     ELSE IF IsTrue(o.errorDuringExit)
       THEN [effects |-> <<SetConnectionClose, rejectionEffect(o)>>,
             lastRequestStarted |-> s.sock[c].lastRequestStarted]
     ELSE [effects |-> <<SetConnectionClose, ResEnd>>,
           lastRequestStarted |-> s.sock[c].lastRequestStarted]

\* handleFinalRequests, lines 289-321: the effects on the response, and the connection's flag
handleFinalRequests(s, c) ==
  LET lastRequestStarted ==
        IF IsDef(s.sock[c].lastRequestStarted) THEN Val(s.sock[c].lastRequestStarted) ELSE FALSE
      o == s.mw.options
  IN IF IsTrue(o.performLastRequest) /\ lastRequestStarted = FALSE
       THEN [effects |-> <<SetConnectionClose, CallNext>>, lastRequestStarted |-> Some(TRUE)]
     ELSE IF IsTrue(o.errorDuringExit)
       THEN [effects |-> <<SetConnectionClose, rejectionEffect(o)>>,
             lastRequestStarted |-> Some(lastRequestStarted)]
     ELSE [effects |-> <<SetConnectionClose, ResEnd>>,
           lastRequestStarted |-> Some(lastRequestStarted)]

\* the request handler without the test of `draining` (lines 94-96)
middleware_AlwaysFinal(s, c) ==
  IF ~s.installed THEN [effects |-> <<CallNext>>, lastRequestStarted |-> s.sock[c].lastRequestStarted]
  ELSE handleFinalRequests(s, c)

\* the request handler returned by middleware(app), src/src/lib/graceful-exit.js lines 87-98
middleware(s, c) ==
  IF ~s.installed THEN [effects |-> <<CallNext>>, lastRequestStarted |-> s.sock[c].lastRequestStarted]
  ELSE IF ~s.mw.draining
    THEN [effects |-> <<CallNext>>, lastRequestStarted |-> s.sock[c].lastRequestStarted]
  ELSE handleFinalRequests(s, c)

NoResponse == <<>>

\* ------------------------------------------------------------------ inputs
\* the options objects passed to gracefulExitHandler
With(options, f, values) == {[options EXCEPT ![f] = v] : v \in values}

TimedOptions ==
  [NoOptions EXCEPT !.serverCloseMaxDelay = Some(MaxDelay), !.hardExitTimeout = Some(HardLong)]

CallbackInputs ==
  UNION {With(o, "callback", {Undefined, Some("ok"), Some("throws"), Some("notFunction")})
           : o \in With(TimedOptions, "exitProcess", {Undefined, Some(FALSE)})}

DelayInputs ==
  UNION {With(o, "serverCloseMinDelay", {Undefined, Some(MinDelayShort), Some(MinDelayLong)})
           : o \in With([TimedOptions EXCEPT !.callback = Some("ok")],
                        "hardExitTimeout", {Some(HardShort), Some(HardLong)})}

\* sockets are to be destroyed on hard exit
HardExitInputs ==
  {[TimedOptions EXCEPT !.callback = Some("ok"), !.destroySocketsOnHardExit = Some(TRUE)]}

\* the deprecated names suicideTimeout and force, without and with their successors
LegacyInputs ==
  LET legacy == [NoOptions EXCEPT !.serverCloseMaxDelay = Some(MaxDelay),
                                  !.callback = Some("ok"),
                                  !.suicideTimeout = Some(HardShort),
                                  !.force = Some(TRUE)]
  IN {legacy, [legacy EXCEPT !.hardExitTimeout = Some(HardLong),
                             !.destroySocketsOnHardExit = Some(FALSE)]}

\* a logger of the caller, with log left out, false and true
LoggerInputs ==
  With([TimedOptions EXCEPT !.logger = Some("custom")], "log",
       {Undefined, Some(FALSE), Some(TRUE)})

ConfigurationInputs == LegacyInputs \cup LoggerInputs

\* a socket.io instance with connected clients, and a handle without `sockets`
SocketIOInputs ==
  With([TimedOptions EXCEPT !.callback = Some("ok")], "socketio",
       {Some("valid"), Some("invalid")})

OrchestrationInputs == CallbackInputs \cup DelayInputs \cup HardExitInputs \cup SocketIOInputs

PolicyInputs ==
  UNION {   With(o, "getRejectionError",
                 {Undefined, Some("custom"), Some("returnsUndefined"), Some("notFunction")})
       \cup {[o EXCEPT !.errorDuringExit = Some(FALSE)]}
       : o \in With(TimedOptions, "performLastRequest", {Undefined, Some(FALSE)})}

\* ------------------------------------------------------------------- actions
InitWith(inputs) ==
  /\ now = StartTime
  /\ userOptions \in inputs
  /\ apps = [a \in Apps |-> NewApp(a = 1)]
  /\ resp = NoResponse
  /\ lastServed = FALSE

Init == InitWith(OrchestrationInputs \cup PolicyInputs \cup ConfigurationInputs)

\* one more call, counted up to "more than one"
Called(n) == IF n < 2 THEN n + 1 ELSE n

Step(a, s) ==
  /\ apps' = [apps EXCEPT ![a] = s]
  /\ resp' = NoResponse
  /\ UNCHANGED <<now, userOptions, lastServed>>

\* gracefulExitHandler working on one Middleware of the module, whatever app
\* it is given (state in module variables, as in the 0.x source)
GracefulExit_ModuleState(a) ==
  \E options \in (IF apps[a].handlerCalls = 0 THEN {userOptions}
                                               ELSE {userOptions, NoOptions}) :
    /\ apps' = [apps EXCEPT ![a].handlerCalls = Called(@),
                            ![1] = gracefulExitHandler(
                                     [apps[1] EXCEPT !.handlerCalls =
                                        IF a = 1 THEN Called(@) ELSE @], options)]
    /\ resp' = NoResponse
    /\ UNCHANGED <<now, userOptions, lastServed>>

\* gracefulExitHandler(app, server, options): the signal handler passes
\* userOptions; a repeated call may pass other options
GracefulExit(a) ==
  \E options \in (IF apps[a].handlerCalls = 0 THEN {userOptions}
                                               ELSE {userOptions, NoOptions}) :
    Step(a, gracefulExitHandler([apps[a] EXCEPT !.handlerCalls = Called(@)], options))

\* trackConnections(server, app), called once per server
TrackConnections(a) ==
  /\ apps[a].trackers = 0
  /\ apps[a].installed
  /\ Step(a, trackConnections(apps[a]))

\* the timer of the minimum-delay sleep runs
MinDelayElapsed(a) ==
  /\ apps[a].pc = "minSleep"
  /\ now >= apps[a].wake
  /\ Step(a, pollStart(apps[a]))

\* server.getConnections calls back with the count
ConnectionsCounted(a) ==
  /\ apps[a].pc = "pollQuery"
  /\ Step(a, pollResult(apps[a], Cardinality(apps[a].connections)))

\* server.getConnections calls back with an error
ConnectionsQueryFailed(a) ==
  /\ apps[a].pc = "pollQuery"
  /\ Step(a, Catch([apps[a] EXCEPT !.exc = TRUE]))

\* the timer of sleep(50) runs
PollSleepElapsed(a) ==
  /\ apps[a].pc = "pollSleep"
  /\ now >= apps[a].wake
  /\ Step(a, pollStart(apps[a]))

\* server.close calls back: the listening socket and every connection are closed
ServerClosed(a) ==
  /\ apps[a].pc = "closing"
  /\ apps[a].connections = {}
  /\ Step(a, serverClosed(apps[a]))

\* the hard-exit timeout runs
HardExitTimerFires(a) ==
  /\ IsDef(apps[a].hardTimerAt)
  /\ now >= Val(apps[a].hardTimerAt)
  /\ Step(a, hardExitHandler([apps[a] EXCEPT !.hardTimerAt = Undefined]))

\* process.exit(code) without `await sleep(exitDelay)` before it (line 259)
ExitDelayElapsed_NoWait(a) ==
  \E e \in apps[a].exitSleeps :
    Step(a, [apps[a] EXCEPT !.exitSleeps = @ \ {e},
                            !.processExitCalls = Append(@, e.code)])

\* sleep(exitDelay) of exit() is over: process.exit(code), line 260
ExitDelayElapsed(a) ==
  \E e \in apps[a].exitSleeps :
    /\ now >= e.at
    /\ Step(a, [apps[a] EXCEPT !.exitSleeps = @ \ {e},
                               !.processExitCalls = Append(@, e.code)])

\* a client connects
ConnectionOpened(a, c) ==
  /\ apps[a].listening
  /\ c \notin apps[a].connections
  /\ Step(a, connectionEvent(apps[a], c))

\* a connection ends (closed by the client, or after socket.destroy())
ConnectionClosed(a, c) ==
  /\ c \in apps[a].connections
  /\ Step(a, closeEvent(apps[a], c))

\* a request whose interception resolves the options anew (an assignment to
\* this._options added to handleFinalRequests)
Request_ResolvesOptions(a, c) ==
  /\ apps[a].installed
  /\ c \in apps[a].connections
  /\ LET s == apps[a]
         r == middleware(s, c)
         passed == s.mw.draining /\ r.effects[Len(r.effects)] = CallNext
         logged == IF s.mw.draining
                     THEN logger([s EXCEPT !.mw.options = ResolveOptions(NoOptions)]) ELSE s
     IN /\ apps' = [apps EXCEPT ![a] = [logged EXCEPT
                                   !.sock[c].lastRequestStarted = r.lastRequestStarted,
                                   !.sock[c].finalPasses =
                                      IF passed /\ @ < 2 THEN @ + 1 ELSE @]]
        /\ resp' = <<[app |-> a, draining |-> s.mw.draining,
                      finalPasses |-> s.sock[c].finalPasses,
                      effects |-> r.effects]>>
  /\ UNCHANGED <<now, userOptions, lastServed>>

\* a request arrives on an open connection and runs through the middleware
Request(a, c) ==
  /\ apps[a].installed
  /\ c \in apps[a].connections
  /\ LET s == apps[a]
         r == middleware(s, c)
         passed == s.mw.draining /\ r.effects[Len(r.effects)] = CallNext
         \* handleFinalRequests logs one message on each of its branches
         logged == IF s.mw.draining THEN logger(s) ELSE s
     IN /\ apps' = [apps EXCEPT ![a] = [logged EXCEPT
                                   !.sock[c].lastRequestStarted = r.lastRequestStarted,
                                   !.sock[c].finalPasses =
                                      IF passed /\ @ < 2 THEN @ + 1 ELSE @]]
        /\ resp' = <<[app |-> a, draining |-> s.mw.draining,
                      finalPasses |-> s.sock[c].finalPasses,
                      effects |-> r.effects]>>
  /\ UNCHANGED <<now, userOptions, lastServed>>

\* the deadlines of the pending timers
Deadlines ==
  UNION {   (IF apps[a].pc \in {"minSleep", "pollSleep"} THEN {apps[a].wake} ELSE {})
       \cup (IF IsDef(apps[a].hardTimerAt) THEN {Val(apps[a].hardTimerAt)} ELSE {})
       \cup {e.at : e \in apps[a].exitSleeps}
       : a \in Apps}

\* time passes, up to a pending deadline
Tick ==
  /\ \E t \in Deadlines : t > now /\ now' = t
  /\ resp' = NoResponse
  /\ UNCHANGED <<apps, userOptions, lastServed>>

AppNext(a) ==
  \/ GracefulExit(a)
  \/ TrackConnections(a)
  \/ MinDelayElapsed(a)
  \/ ConnectionsCounted(a)
  \/ ConnectionsQueryFailed(a)
  \/ PollSleepElapsed(a)
  \/ ServerClosed(a)
  \/ HardExitTimerFires(a)
  \/ ExitDelayElapsed(a)
  \/ \E c \in Conns :
       \/ ConnectionOpened(a, c)
       \/ ConnectionClosed(a, c)
       \/ Request(a, c)

\* a process with one Express app
Next == Tick \/ AppNext(1)

Spec == Init /\ [][Next]_vars

\* The event loop runs every callback that is due: a timer whose deadline has
\* passed, the callback of server.getConnections, the callback of server.close
\* once the last connection has ended.  Clients are under no such obligation.
Fairness ==
  /\ WF_vars(Tick)
  /\ WF_vars(MinDelayElapsed(1))
  /\ WF_vars(ConnectionsCounted(1) \/ ConnectionsQueryFailed(1))
  /\ WF_vars(PollSleepElapsed(1))
  /\ WF_vars(ServerClosed(1))
  /\ WF_vars(HardExitTimerFires(1))
  /\ WF_vars(ExitDelayElapsed(1))

FairSpec == Init /\ [][Next]_vars /\ Fairness

\* ------------------------------------------- the connection tracker on its own
\* The public methods trackSocketOpen and trackSocketClose, called directly in
\* any order on distinct socket objects, for the Middleware objects of two
\* apps of the process.
TrackerInit ==
  /\ now = StartTime
  /\ userOptions = NoOptions
  /\ apps = [a \in Apps |-> NewApp(a \in {1, 2})]
  /\ resp = NoResponse
  /\ lastServed = FALSE

\* middleware.trackSocketOpen(socket) on a socket that has not been tracked
TrackSocketOpenCall(a, c) ==
  /\ apps[a].trackOpens < MaxTrackerOpens
  /\ ~IsDef(apps[a].sock[c].trackerId)
  /\ Step(a, [trackSocketOpen(apps[a], c) EXCEPT !.trackOpens = @ + 1])

\* middleware.trackSocketClose(socket) on any socket: tracked, never tracked,
\* or removed already
TrackSocketCloseCall(a, c) ==
  Step(a, [trackSocketClose(apps[a], c) EXCEPT
             !.trackCloses = IF \E e \in apps[a].mw.sockets : e[2] = c THEN @ + 1 ELSE @])

\* the socket object of a removed connection gives way to that of a new one
SocketReplaced(a, c) ==
  /\ IsDef(apps[a].sock[c].trackerId)
  /\ ~(\E e \in apps[a].mw.sockets : e[2] = c)
  /\ Step(a, [apps[a] EXCEPT !.sock[c] = NewSocket])

TrackerNext ==
  \E a \in {1, 2} : \E c \in Conns :
    \/ TrackSocketOpenCall(a, c)
    \/ TrackSocketCloseCall(a, c)
    \/ SocketReplaced(a, c)

TrackerSpec == TrackerInit /\ [][TrackerNext]_vars

\* ------------------------------------------------- two Express apps, one process
\* Two apps with a server each in one process.  The first has the middleware
\* installed; the second has it or not.  The process outlives the shutdown of
\* an app: the caller passes exitProcess false and a callback.
MultiAppInputs ==
  {[TimedOptions EXCEPT !.callback = Some("ok"), !.exitProcess = Some(FALSE)]}

MultiAppInit ==
  /\ now = StartTime
  /\ userOptions \in MultiAppInputs
  /\ apps \in {[a \in Apps |-> NewApp(a = 1 \/ (a = 2 /\ second))] : second \in BOOLEAN}
  /\ resp = NoResponse
  /\ lastServed = FALSE

MultiAppNext ==
  \/ Tick
  \/ \E a \in {1, 2} :
       \/ GracefulExit(a)
       \/ ConnectionsCounted(a)
       \/ PollSleepElapsed(a)
       \/ ServerClosed(a)
       \/ ConnectionOpened(a, 1)
       \/ ConnectionClosed(a, 1)
       \/ Request(a, 1)

MultiAppSpec == MultiAppInit /\ [][MultiAppNext]_vars

\* ------------------------------------------- the scenarios of the specification
\* One app, one client.  The client connects before the shutdown begins and
\* not after; the event loop runs every callback that is ready before time
\* passes, and time passes to the next deadline.
ScenarioInputs ==
  {NoOptions, [TimedOptions EXCEPT !.callback = Some("ok")]}

ScenarioInit == InitWith(ScenarioInputs)

\* a callback of the app is ready to run
CallbackReady(a) ==
  \/ apps[a].pc = "pollQuery"
  \/ apps[a].pc = "closing" /\ apps[a].connections = {}
  \/ apps[a].pc \in {"minSleep", "pollSleep"} /\ now >= apps[a].wake
  \/ IsDef(apps[a].hardTimerAt) /\ now >= Val(apps[a].hardTimerAt)
  \/ \E e \in apps[a].exitSleeps : now >= e.at

\* the event loop is idle until the earliest pending timer
PromptTick ==
  /\ \A a \in Apps : ~CallbackReady(a)
  /\ \E t \in Deadlines :
       /\ t > now
       /\ \A u \in Deadlines : u > now => t <= u
       /\ now' = t
  /\ resp' = NoResponse
  /\ UNCHANGED <<apps, userOptions, lastServed>>

\* the client connects while the server is in normal operation
ClientConnects(a) ==
  /\ ~apps[a].mw.draining
  /\ ConnectionOpened(a, 1)

\* the client ends its connection
ClientCloses(a) ==
  /\ 1 \in apps[a].connections
  /\ apps' = [apps EXCEPT ![a] = closeEvent(apps[a], 1)]
  /\ resp' = NoResponse
  /\ lastServed' = (lastServed \/ apps[a].sock[1].finalPasses > 0)
  /\ UNCHANGED <<now, userOptions>>

ScenarioNext ==
  \/ PromptTick
  \/ GracefulExit(1)
  \/ ConnectionsCounted(1)
  \/ PollSleepElapsed(1)
  \/ ServerClosed(1)
  \/ HardExitTimerFires(1)
  \/ ExitDelayElapsed(1)
  \/ ClientConnects(1)
  \/ ClientCloses(1)
  \/ Request(1, 1)

ScenarioSpec == ScenarioInit /\ [][ScenarioNext]_vars

ScenarioFairness ==
  /\ WF_vars(PromptTick)
  /\ WF_vars(ConnectionsCounted(1))
  /\ WF_vars(PollSleepElapsed(1))
  /\ WF_vars(ServerClosed(1))
  /\ WF_vars(HardExitTimerFires(1))
  /\ WF_vars(ExitDelayElapsed(1))

ScenarioFairSpec == ScenarioInit /\ [][ScenarioNext]_vars /\ ScenarioFairness

\* ==================================================================== claims
Initiated(a) == apps[a].mw.exitRequestedDate # 0
Options(a) == apps[a].mw.options
Elapsed(a) == now - apps[a].mw.exitRequestedDate
Responded == resp # NoResponse
LastEffect == resp[1].effects[Len(resp[1].effects)]
\* a poll of the loop has completed in this step: getConnections returned a count
PollCompleted(a) ==
  apps[a].pc = "pollQuery" /\ apps'[a].pc \in {"pollSleep", "closing", "done"}

\* C1: however the completion of server.close and the firing of the hard-exit
\* timer interleave, the user callback is invoked at most once and process.exit
\* is called at most once.
C1_TerminalActionAtMostOnce ==
  \A a \in Apps : Len(apps[a].callbackCalls) <= 1 /\ Len(apps[a].processExitCalls) <= 1

\* server.close completed while the hard-exit path was waiting out exitDelay,
C1_Witness ==
  \E a \in Apps :
    /\ apps[a].mw.connectionsClosed
    /\ apps[a].callbackCalls = <<1>>
    /\ \E e \in apps[a].exitSleeps : e.code = 1
    \* and the timer had been armed with 0 ms remaining
    /\ apps[a].msSinceExitRequested > Val(Options(a).hardExitTimeout)

\* C2: with exitProcess true, once graceful exit is initiated process.exit is
\* eventually called, whatever the connections do.
C2_ProcessEventuallyExits ==
  \A a \in Apps :
    (Initiated(a) /\ IsTrue(Options(a).exitProcess)) ~> (apps[a].processExitCalls # <<>>)

C4_CountdownForcesCallback ==
  \A a \in Apps :
    (/\ apps[a].pc = "closing"
     /\ ~IsTrue(Options(a).exitProcess)
     /\ IsFunction(Options(a).callback)
     /\ apps[a].callbackCalls = <<>>)
      => IsDef(apps[a].hardTimerAt)

\* C5: server.close is never called sooner than serverCloseMinDelay ms after
\* gracefulExitHandler.
C5_MinDelayHonoured ==
  \A a \in Apps :
    (apps[a].mw.serverClosedOnce /\ IsDef(Options(a).serverCloseMinDelay))
      => Elapsed(a) >= Val(Options(a).serverCloseMinDelay)

\* C6: a poll that finds more than serverCloseMaxDelay ms elapsed since
\* initiation leaves the loop and calls server.close, also with connections
\* open; so the loop only sleeps again after a poll made within the maximum
\* delay, and its next poll is due no later than the maximum delay plus one
\* poll interval after initiation.
C6_MaxDelayForcesClose ==
  /\ [][\A a \in Apps :
          (PollCompleted(a)
             /\ apps[a].msSinceExitRequested > Val(Options(a).serverCloseMaxDelay))
            => /\ apps'[a].mw.serverClosedOnce
               /\ apps'[a].serverCloseCalls = 1
               /\ ~apps'[a].listening]_vars
  /\ [](\A a \in Apps :
          apps[a].pc = "pollSleep"
            => /\ apps[a].msSinceExitRequested <= Val(Options(a).serverCloseMaxDelay)
               /\ apps[a].wake - apps[a].mw.exitRequestedDate
                    <= Val(Options(a).serverCloseMaxDelay) + PollInterval)

\* server.close was called with connections open, the maximum delay exceeded
\* and the hard-exit timeout not
C6_Witness ==
  \E a \in Apps :
    /\ apps[a].pc = "closing"
    /\ apps[a].connectionCount > 0
    /\ apps[a].msSinceExitRequested > Val(Options(a).serverCloseMaxDelay)
    /\ apps[a].msSinceExitRequested <= Val(Options(a).hardExitTimeout)

\* C7: the listening socket stays open until server.close is called, and
\* server.close is called only by a poll that counted no connection or found
\* the maximum close delay or the hard-exit timeout exceeded; a poll that
\* counts no connection calls server.close at once.
C7_DrainWindow ==
  /\ [][\A a \in Apps :
          /\ (apps'[a].mw.serverClosedOnce /\ ~apps[a].mw.serverClosedOnce)
               => /\ PollCompleted(a)
                  /\ \/ apps'[a].connectionCount <= 0
                     \/ apps[a].msSinceExitRequested > Val(Options(a).serverCloseMaxDelay)
                     \/ apps[a].msSinceExitRequested > Val(Options(a).hardExitTimeout)
          /\ (PollCompleted(a) /\ apps'[a].connectionCount = 0)
               => apps'[a].mw.serverClosedOnce]_vars
  /\ [](\A a \in Apps : apps[a].listening = ~apps[a].mw.serverClosedOnce)

\* after waiting one poll interval with a connection open, a poll counted no
\* connection and server.close was called before the maximum delay
C7_Witness ==
  \E a \in Apps :
    /\ apps[a].pc = "closing"
    /\ apps[a].connectionCount = 0
    /\ apps[a].msSinceExitRequested >= PollInterval
    /\ apps[a].msSinceExitRequested < Val(Options(a).serverCloseMaxDelay)

\* C8: a request handled while the instance is draining gets the header
\* Connection: close set first, then exactly one policy outcome, under each of
\* the three policies.
C8_ConnectionCloseFirst ==
  (Responded /\ resp[1].draining)
    => /\ Len(resp[1].effects) = 2
       /\ resp[1].effects[1] = SetConnectionClose
       /\ resp[1].effects[2] # SetConnectionClose

\* a request was dropped silently while draining
C8_Witness ==
  Responded /\ resp[1].draining /\ LastEffect = ResEnd

\* C9: a request handled while the instance is not draining is passed on with
\* next() and nothing else happens: no header, no flag on the connection, no
\* change of the instance.
C9_PassThroughUntouched ==
  /\ [][(resp' # NoResponse /\ ~resp'[1].draining)
          => resp'[1].effects = <<CallNext>> /\ apps' = apps]_vars
  /\ [](\A a \in Apps : \A c \in Conns :
          ~apps[a].mw.draining
            => /\ apps[a].sock[c].lastRequestStarted = Undefined
               /\ apps[a].sock[c].finalPasses = 0)

\* a request was handled before graceful exit was initiated
C9_Witness ==
  Responded /\ ~resp[1].draining /\ ~Initiated(resp[1].app)

\* a request is refused with an error: next(error), or an exception that
\* Express hands to its error handling like next(error)
RefusedWithError(effect) ==
  effect \in {CallNextDefaultError, CallNextCustomError, ThrowTypeError}

\* C10: under performLastRequest a connection gets at most one request passed
\* to the application after draining began; each later request on it is
\* refused with an error if errorDuringExit is set, and ended without next()
\* otherwise.
C10_OneLastRequest ==
  /\ \A a \in Apps : \A c \in Conns : apps[a].sock[c].finalPasses <= 1
  /\ (Responded /\ resp[1].draining /\ IsTrue(Options(resp[1].app).performLastRequest)
        /\ resp[1].finalPasses >= 1)
       => IF IsTrue(Options(resp[1].app).errorDuringExit)
            THEN RefusedWithError(LastEffect)
            ELSE LastEffect = ResEnd

\* a second request on a connection that had its last request was refused
C10_Witness ==
  /\ Responded /\ resp[1].draining /\ resp[1].finalPasses = 1
  /\ IsTrue(Options(resp[1].app).performLastRequest)
  /\ LastEffect = CallNextDefaultError

\* the options of the app whose middleware handled the last request
RespOptions == Options(resp[1].app)

\* C11: with errorDuringExit true and performLastRequest false, a request
\* handled while draining gets the header Connection: close and then next(error)
\* with the configured rejection error, or the default one if none is
\* configured or the configured function returns nothing; next() without an
\* error is not called.
C11_RejectedWithConfiguredError ==
  (Responded /\ resp[1].draining
     /\ IsTrue(RespOptions.errorDuringExit) /\ ~IsTrue(RespOptions.performLastRequest))
    => resp[1].effects =
         <<SetConnectionClose,
           IF RespOptions.getRejectionError = Some("custom")
             THEN CallNextCustomError ELSE CallNextDefaultError>>

\* C12: with performLastRequest false and errorDuringExit false, a request
\* handled while draining is ended with res.end() after the header is set, and
\* next is not called in any form.
C12_SilentDrop ==
  (Responded /\ resp[1].draining
     /\ ~IsTrue(RespOptions.errorDuringExit) /\ ~IsTrue(RespOptions.performLastRequest))
    => resp[1].effects = <<SetConnectionClose, ResEnd>>

\* the first request of a connection after draining began was dropped
C12_Witness ==
  /\ Responded /\ resp[1].draining /\ resp[1].finalPasses = 0
  /\ RespOptions.errorDuringExit = Some(FALSE)
  /\ RespOptions.performLastRequest = Some(FALSE)
  /\ resp[1].effects = <<SetConnectionClose, ResEnd>>

\* the hard-exit timer fires in this step with server.close not completed
HardExitRuns(a) ==
  /\ IsDef(apps[a].hardTimerAt) /\ now >= Val(apps[a].hardTimerAt)
  /\ ~IsDef(apps'[a].hardTimerAt)
  /\ ~apps[a].mw.connectionsClosed /\ ~apps'[a].mw.connectionsClosed

Registered(a, c) == \E e \in apps[a].mw.sockets : e[2] = c

\* C13: when the hard-exit timer fires before server.close has completed,
\* every connection in the registry is destroyed if destroySocketsOnHardExit
\* is true and no other; none is destroyed if it is false; either way the
\* callback, if callable, is invoked with code 1 and, unless it throws,
\* process.exit(1) is scheduled.
C13_HardExitDestroysTracked ==
  [][\A a \in Apps :
       HardExitRuns(a)
         => /\ \A c \in Conns :
                 apps'[a].sock[c].destroyed =
                   (apps[a].sock[c].destroyed
                      \/ (IsTrue(Options(a).destroySocketsOnHardExit) /\ Registered(a, c)))
            /\ apps'[a].mw.exitCalled
            /\ apps'[a].callbackCalls =
                 IF IsFunction(Options(a).callback) THEN <<1>> ELSE <<>>
            /\ (Options(a).callback # Some("throws"))
                 => \E e \in apps'[a].exitSleeps : e.code = 1 /\ e.at > now]_vars

\* the hard exit destroyed the tracked connection and left alone the one that
\* was opened before tracking started
C13_Witness ==
  \E a \in Apps : \E c, d \in Conns :
    /\ apps[a].mw.exitCalled /\ apps[a].callbackCalls = <<1>>
    /\ ~apps[a].mw.connectionsClosed
    /\ {c, d} \subseteq apps[a].connections
    /\ Registered(a, c) /\ apps[a].sock[c].destroyed
    /\ ~Registered(a, d) /\ ~apps[a].sock[d].destroyed

ExitCodes == {0, 1}

\* exit(code) runs its terminal action in this step: the callback is invoked
\* with the code, or the wait before process.exit(code) begins
ExitInvoked(a, code) ==
  \/ apps'[a].callbackCalls = Append(apps[a].callbackCalls, code)
  \/ \E e \in apps'[a].exitSleeps \ apps[a].exitSleeps : e.code = code

\* process.exit(code) is called in this step by the hard-exit handler itself
\* (line 269), not at the end of exit()
DirectProcessExit(a, code) ==
  /\ apps'[a].processExitCalls = Append(apps[a].processExitCalls, code)
  /\ apps'[a].exitSleeps = apps[a].exitSleeps

\* code 0 is reported when server.close has completed, code 1 when the
\* hard-exit timeout has elapsed with server.close not completed
GracefulOutcome(a) ==
  apps'[a].mw.connectionsClosed /\ apps'[a].connections = {} /\ ~apps'[a].listening

HardOutcome(a) ==
  /\ HardExitRuns(a)
  /\ Elapsed(a) >= Val(Options(a).hardExitTimeout)

\* only 0 and 1 are ever reported, to the callback or to process.exit
OnlyExitCodes(a) ==
  /\ \A i \in DOMAIN apps[a].callbackCalls : apps[a].callbackCalls[i] \in ExitCodes
  /\ \A i \in DOMAIN apps[a].processExitCalls : apps[a].processExitCalls[i] \in ExitCodes
  /\ \A e \in apps[a].exitSleeps : e.code \in ExitCodes

C15_SocketCountMatchesRegistry ==
  /\ [](\A a \in Apps :
          /\ apps[a].mw.socketCount = Cardinality(apps[a].mw.sockets)
          /\ apps[a].mw.socketCount = apps[a].trackOpens - apps[a].trackCloses
          /\ apps[a].mw.socketCount >= 0
          /\ \A e \in apps[a].mw.sockets : apps[a].sock[e[2]].trackerId = Some(e[1]))
  /\ [][\A a \in Apps : \A c \in Conns :
          TrackSocketCloseCall(a, c)
            => /\ ~(\E e \in apps'[a].mw.sockets : e[2] = c)
               /\ ~Registered(a, c) => apps'[a].mw = apps[a].mw]_vars

\* one socket is tracked, two were removed, and the socket object of a
\* removed one is still around
C15_Witness ==
  \E a \in Apps : \E c \in Conns :
    /\ apps[a].trackOpens = MaxTrackerOpens
    /\ apps[a].trackCloses = MaxTrackerOpens - 1
    /\ apps[a].mw.socketCount = 1
    /\ IsDef(apps[a].sock[c].trackerId) /\ ~Registered(a, c)

\* C16: a passed suicideTimeout becomes the resolved hardExitTimeout when
\* hardExitTimeout is not passed, a passed force becomes the resolved
\* destroySocketsOnHardExit when that is not passed, and a passed successor is
\* kept.
C16_DeprecatedOptionsAliased ==
  \A a \in Apps :
    Initiated(a)
      => /\ (IsDef(userOptions.suicideTimeout) /\ ~IsDef(userOptions.hardExitTimeout))
              => Options(a).hardExitTimeout = userOptions.suicideTimeout
         /\ (IsDef(userOptions.force) /\ ~IsDef(userOptions.destroySocketsOnHardExit))
              => Options(a).destroySocketsOnHardExit = userOptions.force
         /\ IsDef(userOptions.hardExitTimeout)
              => Options(a).hardExitTimeout = userOptions.hardExitTimeout
         /\ IsDef(userOptions.destroySocketsOnHardExit)
              => Options(a).destroySocketsOnHardExit = userOptions.destroySocketsOnHardExit

\* C17: with a logger passed and log not passed the resolved log is true and
\* the messages of the shutdown are handed to that logger; with log passed as
\* false no logger is handed a message.
C17_LoggerImpliesLog ==
  \A a \in Apps :
    Initiated(a)
      => /\ (IsDef(userOptions.logger) /\ ~IsDef(userOptions.log))
              => /\ Options(a).log = Some(TRUE)
                 /\ Val(userOptions.logger) \in apps[a].logSinks
         /\ userOptions.log = Some(FALSE) => apps[a].logSinks = {}

\* C18: a passed serverCloseMinDelay above the resolved serverCloseMaxDelay
\* is resolved to the maximum; a resolved minimum never exceeds the maximum;
\* and initiation goes on to the wait of the minimum delay.
C18_MinDelayClamped ==
  /\ [](\A a \in Apps :
          Initiated(a)
            => /\ (IsDef(userOptions.serverCloseMinDelay)
                     /\ Val(userOptions.serverCloseMinDelay) > Val(Options(a).serverCloseMaxDelay))
                    => Options(a).serverCloseMinDelay = Options(a).serverCloseMaxDelay
               /\ IsDef(Options(a).serverCloseMinDelay)
                    => Val(Options(a).serverCloseMinDelay) <= Val(Options(a).serverCloseMaxDelay)
               /\ (IsDef(userOptions.serverCloseMinDelay)
                     /\ Val(userOptions.serverCloseMinDelay) <= Val(Options(a).serverCloseMaxDelay))
                    => Options(a).serverCloseMinDelay = userOptions.serverCloseMinDelay)
  /\ [][\A a \in Apps :
          (~Initiated(a) /\ apps'[a].mw.exitRequestedDate # 0
             /\ IsDef(userOptions.serverCloseMinDelay))
            => /\ apps'[a].pc = "minSleep"
               /\ apps'[a].mw.draining
               /\ ~apps'[a].caught]_vars

\* a shutdown whose minimum delay was lowered to the maximum has called
\* server.close
C18_Witness ==
  \E a \in Apps :
    /\ apps[a].mw.serverClosedOnce
    /\ userOptions.serverCloseMinDelay = Some(MinDelayLong)
    /\ Options(a).serverCloseMinDelay = Some(MaxDelay)

\* the same app with no callback option
WithoutCallback(s) == [s EXCEPT !.mw.options.callback = Undefined]

\* each step of the shutdown does with the callback option what it does without
IgnoresCallback(s) ==
  /\ serverClosed(WithoutCallback(s)) = WithoutCallback(serverClosed(s))
  /\ hardExitHandler(WithoutCallback(s)) = WithoutCallback(hardExitHandler(s))
  /\ pollStart(WithoutCallback(s)) = WithoutCallback(pollStart(s))
  /\ \A n \in 0..MaxConns :
       pollResult(WithoutCallback(s), n) = WithoutCallback(pollResult(s, n))
  /\ \A code \in ExitCodes : exit(WithoutCallback(s), code) = WithoutCallback(exit(s, code))

\* C19: a callback option that is not a function is never invoked; the call
\* that initiates the shutdown and every later step of it (poll, server.close,
\* its completion, the hard exit, exit) do exactly what they do when no
\* callback is passed.
C19_InvalidCallbackIgnored ==
  /\ [](\A a \in Apps :
          Options(a).callback = Some("notFunction")
            => /\ apps[a].callbackCalls = <<>>
               /\ IgnoresCallback(apps[a]))
  /\ [][\A a \in Apps :
          (~Initiated(a) /\ apps'[a].mw.exitRequestedDate # 0
             /\ userOptions.callback = Some("notFunction"))
            => /\ ~apps'[a].caught
               /\ WithoutCallback(apps'[a]) =
                    gracefulExitHandler([apps[a] EXCEPT !.handlerCalls = Called(@)],
                                        [userOptions EXCEPT !.callback = Undefined])]_vars

\* with a callback that is not a function the server was closed and the
\* process exited with code 0
C19_Witness ==
  \E a \in Apps :
    /\ Options(a).callback = Some("notFunction")
    /\ apps[a].mw.connectionsClosed
    /\ apps[a].callbackCalls = <<>>
    /\ apps[a].processExitCalls = <<0>>

\* C20: with a getRejectionError option that is not a function, a request
\* refused while draining under errorDuringExit gets next(error) with the
\* default unavailability error, and the middleware raises no exception.
C20_InvalidRejectionErrorIgnored ==
  (Responded /\ resp[1].draining
     /\ RespOptions.getRejectionError = Some("notFunction")
     /\ IsTrue(RespOptions.errorDuringExit)
     /\ (IsTrue(RespOptions.performLastRequest) => resp[1].finalPasses >= 1))
    => /\ LastEffect = CallNextDefaultError
       /\ \A i \in DOMAIN resp[1].effects : resp[1].effects[i] # ThrowTypeError

\* C21: an exception raised inside the orchestration sequence is caught, and
\* the shutdown still reaches its terminal action.
C21_ExceptionStillTerminates ==
  \A a \in Apps : apps[a].caught ~> apps[a].mw.exitCalled

\* C27: with a socket.io instance in the options its clients are disconnected
\* when the graceful exit closes the server: once server.close has been
\* called they are disconnected, whether or not HTTP connections remain.
C27_SocketIODisconnectedAtOnce ==
  \A a \in Apps :
    (Options(a).socketio = Some("valid") /\ apps[a].serverCloseCalls >= 1)
      => apps[a].socketioDisconnects >= 1

\* C22: gracefulExitHandler on an app without the middleware object returns
\* early: that app never drains, arms no timer, does not call server.close,
\* and no exception leaves the call; only the call itself happened.
C22_MissingMiddlewareReturnsEarly ==
  /\ [](\A a \in Apps :
          ~apps[a].installed
            => /\ apps[a].mw = NewMiddleware
               /\ apps[a].pc = "idle"
               /\ ~IsDef(apps[a].hardTimerAt) /\ apps[a].exitSleeps = {}
               /\ apps[a].serverCloseCalls = 0 /\ apps[a].listening
               /\ ~apps[a].exc /\ ~apps[a].caught /\ ~apps[a].unhandled)
  /\ [][\A a \in Apps :
          (~apps[a].installed /\ apps'[a].handlerCalls # apps[a].handlerCalls)
            => apps' = [apps EXCEPT ![a].handlerCalls = apps'[a].handlerCalls]]_vars

\* the handler was called for the app without the middleware while the other
\* app, called too, is shutting down
C22_Witness ==
  \E a, b \in Apps :
    /\ ~apps[a].installed /\ apps[a].handlerCalls = 2 /\ apps[a].connections # {}
    /\ apps[b].installed /\ apps[b].mw.draining /\ apps[b].pc = "closing"

\* C30: a gracefulExitHandler call for one app changes nothing of another
\* app: its draining flag, call time, tracked sockets, exit guard and all the
\* rest stay as they are; an app that was not called passes every request on;
\* and it can be shut down later.
C30_ShutdownStatePerApp ==
  /\ [][\A a, b \in Apps :
          (a # b /\ apps'[a].handlerCalls # apps[a].handlerCalls) => apps'[b] = apps[b]]_vars
  /\ [][\A b \in Apps : apps'[b].mw # apps[b].mw => apps'[b].handlerCalls >= 1]_vars
  /\ [](\A b \in Apps :
          apps[b].handlerCalls = 0
            => /\ apps[b].mw = NewMiddleware
               /\ (Responded /\ resp[1].app = b) => resp[1].effects = <<CallNext>>)

\* the second app was shut down later than the first, which had finished, and
\* each completed its own shutdown
C30_Witness ==
  \E a, b \in Apps :
    /\ a # b
    /\ apps[a].mw.exitCalled /\ apps[b].mw.exitCalled
    /\ apps[a].callbackCalls = <<0>> /\ apps[b].callbackCalls = <<0>>
    /\ apps[b].mw.exitRequestedDate > apps[a].mw.exitRequestedDate

\* C23: with exitProcess false the module never calls process.exit, on the
\* graceful path, the hard-exit path or after an error: no process.exit call
\* is made or pending, and once the terminal action has run the orchestrator
\* has finished with the callback invocation and left no timer behind.
C23_NoProcessExitWhenDisabled ==
  \A a \in Apps :
    (Initiated(a) /\ Options(a).exitProcess = Some(FALSE))
      => /\ apps[a].processExitCalls = <<>>
         /\ apps[a].exitSleeps = {}
         /\ apps[a].mw.exitCalled
              => /\ apps[a].pc \in {"done", "caught"}
                 /\ ~IsDef(apps[a].hardTimerAt)
                 /\ Len(apps[a].callbackCalls) =
                      (IF IsFunction(Options(a).callback) THEN 1 ELSE 0)

\* the shutdown completed with the callback and the process goes on
C23_Witness ==
  \E a \in Apps :
    /\ Options(a).exitProcess = Some(FALSE)
    /\ apps[a].mw.exitCalled /\ apps[a].mw.connectionsClosed
    /\ apps[a].callbackCalls = <<0>>
    /\ apps[a].processExitCalls = <<>>
    /\ apps[a].pc = "done"
\* exit(code) invokes the callback with the code in this step
CallbackInvoked(a, code) ==
  apps'[a].callbackCalls = Append(apps[a].callbackCalls, code)

\* exit(code) begins its wait of exitDelay in this step
ExitWaitBegins(a, code) ==
  \E e \in apps'[a].exitSleeps \ apps[a].exitSleeps :
    e.code = code /\ e.at = now + Val(Options(a).exitDelay)

\* the wait of exit(code) ends in this step with process.exit(code)
ExitWaitEnds(a, code) ==
  \E e \in apps[a].exitSleeps \ apps'[a].exitSleeps :
    /\ e.code = code /\ now >= e.at
    /\ apps'[a].processExitCalls = Append(apps[a].processExitCalls, code)

\* the order of the terminal action with exitProcess true: the wait begins in
\* the step of the callback invocation, if the callback is callable, with the
\* same code; a wait ends only in process.exit with its code
TerminalOrder(a) ==
  /\ \A code \in ExitCodes :
       /\ ExitWaitBegins(a, code)
            => /\ ~apps[a].mw.exitCalled /\ apps'[a].mw.exitCalled
               /\ IF IsFunction(Options(a).callback)
                    THEN CallbackInvoked(a, code)
                    ELSE apps'[a].callbackCalls = <<>>
       /\ ExitWaitEnds(a, code)
            => apps[a].callbackCalls =
                 (IF IsFunction(Options(a).callback) THEN <<code>> ELSE <<>>)
  /\ apps'[a].exitSleeps # apps[a].exitSleeps
       => \E code \in ExitCodes : ExitWaitBegins(a, code) \/ ExitWaitEnds(a, code)

TerminalCodes(a) ==
     {apps[a].callbackCalls[i] : i \in DOMAIN apps[a].callbackCalls}
  \cup {e.code : e \in apps[a].exitSleeps}
  \cup {apps[a].processExitCalls[i] : i \in DOMAIN apps[a].processExitCalls}

\* Scenario B: the one connection was served its last request after the
\* shutdown began and was then closed by the client, before the hard-exit
\* timeout
ScenarioB(a) ==
  /\ Initiated(a) /\ IsTrue(Options(a).performLastRequest)
  /\ lastServed /\ apps[a].connections = {}
  /\ Elapsed(a) < Val(Options(a).hardExitTimeout)

\* the listening socket is closed, server.close has completed and the
\* terminal action has fired with code 0, before the hard-exit timeout
GracefulDone(a) ==
  /\ ~apps[a].listening /\ apps[a].serverCloseCalls = 1
  /\ apps[a].mw.connectionsClosed /\ apps[a].mw.exitCalled
  /\ TerminalCodes(a) = {0}
  /\ Elapsed(a) < Val(Options(a).hardExitTimeout)

\* the hard-exit path has not run
NoHardExit(a) ==
  /\ 1 \notin TerminalCodes(a)
  /\ ~apps[a].unhandled
  /\ \A c \in Conns : ~apps[a].sock[c].destroyed
  /\ apps[a].mw.exitCalled => ~IsDef(apps[a].hardTimerAt)

\* C25: scenario B.  The last request on the connection is passed on with
\* Connection: close; once the client has closed the connection, the
\* orchestrator closes the listening socket and the terminal action fires
\* with code 0 before the hard-exit timeout; the hard-exit path never runs.
C25_ScenarioB ==
  /\ []((Responded /\ resp[1].draining /\ IsTrue(RespOptions.performLastRequest)
           /\ resp[1].finalPasses = 0)
          => resp[1].effects = <<SetConnectionClose, CallNext>>)
  /\ \A a \in Apps : ScenarioB(a) ~> GracefulDone(a)
  /\ \A a \in Apps : [](ScenarioB(a) => [](NoHardExit(a)))

\* scenario B has run to its end with the default configuration
C25_Witness ==
  \E a \in Apps :
    /\ userOptions = NoOptions
    /\ lastServed /\ IsTrue(Options(a).performLastRequest)
    /\ GracefulDone(a)
    /\ apps[a].processExitCalls = <<0>>
\* Scenario A: the shutdown has begun with one connection open, on which no
\* request has arrived since
ScenarioA(a) ==
  /\ Initiated(a)
  /\ apps[a].connections = {1}
  /\ apps[a].sock[1].finalPasses = 0
  /\ apps[a].sock[1].lastRequestStarted # Some(TRUE)

\* C26: scenario A.  With one connection open and idle, the listening socket
\* is closed only when more than serverCloseMaxDelay has elapsed; nothing is
\* reported and the connection is left alone before hardExitTimeout; the
\* hard-exit handler runs hardExitTimeout after initiation and fires the
\* terminal action with code 1, which always comes about while the connection
\* stays open and idle.
C26_ScenarioA ==
  /\ [][\A a \in Apps :
          ScenarioA(a)
            => /\ apps'[a].serverCloseCalls # apps[a].serverCloseCalls
                    => /\ Elapsed(a) > Val(Options(a).serverCloseMaxDelay)
                       /\ ~apps'[a].listening
               /\ HardExitRuns(a)
                    => /\ Elapsed(a) = Val(Options(a).hardExitTimeout)
                       /\ ExitInvoked(a, 1)
                       /\ apps'[a].connections = {1}]_vars
  /\ [](\A a \in Apps :
          (ScenarioA(a) /\ Elapsed(a) < Val(Options(a).hardExitTimeout))
            => /\ TerminalCodes(a) = {} /\ ~apps[a].mw.exitCalled
               /\ ~apps[a].sock[1].destroyed
               /\ Elapsed(a) <= Val(Options(a).serverCloseMaxDelay) => apps[a].listening)
  /\ \A a \in Apps :
       ScenarioA(a) ~> (~ScenarioA(a) \/ (TerminalCodes(a) = {1} /\ ~apps[a].listening))

\* scenario A has run to its end with the default configuration: the
\* connection is still open and the process has exited with code 1
C26_Witness ==
  \E a \in Apps :
    /\ userOptions = NoOptions
    /\ Options(a).serverCloseMaxDelay = Some(DefaultServerCloseMaxDelay)
    /\ Options(a).hardExitTimeout = Some(DefaultHardExitTimeout)
    /\ ScenarioA(a)
    /\ ~apps[a].mw.connectionsClosed
    /\ apps[a].processExitCalls = <<1>>
    /\ Elapsed(a) = DefaultHardExitTimeout + DefaultExitDelay
\* the hard-exit timer is armed in this step
TimerArmed(a) == ~IsDef(apps[a].hardTimerAt) /\ IsDef(apps'[a].hardTimerAt)

\* the hard-exit path has run: the terminal action was fired with code 1
HardExitDone(a) == apps[a].mw.exitCalled /\ 1 \in TerminalCodes(a)

\* C28: the hard-exit timeout is measured from the shutdown-requested
\* timestamp: the timer is armed with max(0, hardExitTimeout - elapsed), the
\* hard-exit handler never runs before hardExitTimeout has elapsed since
\* initiation, its deadline is hardExitTimeout after initiation however long
\* the minimum delay and the poll loop took, and when the connections never
\* close it does run.
C28_HardExitMeasuredFromInitiation ==
  /\ [][\A a \in Apps :
          /\ TimerArmed(a)
               => /\ Val(apps'[a].hardTimerAt) =
                       now + TimerDelay(Some(Max(0, Val(Options(a).hardExitTimeout) - Elapsed(a))))
                  /\ Val(apps'[a].hardTimerAt) =
                       apps[a].mw.exitRequestedDate + Val(Options(a).hardExitTimeout)
          /\ (IsDef(apps[a].hardTimerAt) /\ ~IsDef(apps'[a].hardTimerAt)
                /\ ~apps[a].mw.exitCalled /\ apps'[a].mw.exitCalled
                /\ ~apps'[a].mw.connectionsClosed)
               => Elapsed(a) >= Val(Options(a).hardExitTimeout)]_vars
  /\ \A a \in Apps :
       Initiated(a) ~> (apps[a].connections = {} \/ HardExitDone(a))
\* C29: the draining flag of a Middleware object is false until
\* gracefulExitHandler is called for its app, true once the call has
\* returned, and never false again, whatever requests, connection events,
\* timers and further gracefulExitHandler calls follow.
C29_DrainingIsMonotonic ==
  /\ [](\A a \in Apps :
          /\ apps[a].handlerCalls = 0 => ~apps[a].mw.draining
          /\ (apps[a].installed /\ apps[a].handlerCalls >= 1) => apps[a].mw.draining)
  /\ [][\A a \in Apps :
          /\ apps[a].mw.draining => apps'[a].mw.draining
          /\ (~apps[a].mw.draining /\ apps'[a].mw.draining)
               => apps[a].handlerCalls = 0 /\ apps'[a].handlerCalls = 1]_vars

\* still draining after the terminal action, a repeated gracefulExitHandler
\* call and the call of process.exit
C29_Witness ==
  \E a \in Apps :
    /\ apps[a].mw.draining /\ apps[a].drainCount = 1
    /\ apps[a].handlerCalls = 2
    /\ apps[a].mw.exitCalled
    /\ apps[a].processExitCalls # <<>>
\* the three outcomes of a request intercepted while draining
Outcomes == {CallNext, CallNextDefaultError, CallNextCustomError, ResEnd}

\* the connection of the last request had not used its final request
FinalRequestUnused == resp[1].finalPasses = 0

\* C31: each request intercepted while draining has exactly one outcome after
\* the header: next() if performLastRequest is true and the connection has
\* not used its final request; otherwise next(error) if errorDuringExit is
\* true; otherwise res.end() with next not called.
C31_ExactlyOneOutcome ==
  (Responded /\ resp[1].draining)
    => /\ Len(resp[1].effects) = 2
       /\ resp[1].effects[1] = SetConnectionClose
       /\ LastEffect \in Outcomes
       /\ IF IsTrue(RespOptions.performLastRequest) /\ FinalRequestUnused
            THEN LastEffect = CallNext
          ELSE IF IsTrue(RespOptions.errorDuringExit)
            THEN LastEffect \in {CallNextDefaultError, CallNextCustomError}
          ELSE LastEffect = ResEnd
\* C32: under performLastRequest the first request that a connection receives
\* after draining began is passed on, whatever the connection served before
\* and whenever it was opened while the server still listens; the request
\* marks its own connection only, and a connection is marked by its own
\* request only.
C32_FirstRequestPerConnection ==
  /\ [][\A a \in Apps :
          (resp' # NoResponse /\ resp'[1].app = a /\ resp'[1].draining
             /\ IsTrue(Options(a).performLastRequest) /\ resp'[1].finalPasses = 0)
            => /\ resp'[1].effects = <<SetConnectionClose, CallNext>>
               /\ \E c \in apps[a].connections :
                    /\ apps[a].sock[c].lastRequestStarted # Some(TRUE)
                    /\ apps'[a].sock[c].lastRequestStarted = Some(TRUE)
                    /\ apps[a].sock[c].finalPasses = 0 /\ apps'[a].sock[c].finalPasses = 1
                    /\ \A d \in Conns \ {c} : apps'[a].sock[d] = apps[a].sock[d]]_vars
  /\ [](\A a \in Apps : \A c \in Conns :
          apps[a].sock[c].lastRequestStarted = Some(TRUE) <=> apps[a].sock[c].finalPasses >= 1)

\* a second connection had its first request passed on after another
\* connection had used its own, with the server still listening
C32_Witness ==
  \E a \in Apps : \E c, d \in Conns :
    /\ c # d /\ {c, d} \subseteq apps[a].connections
    /\ apps[a].listening /\ apps[a].mw.draining
    /\ apps[a].sock[c].finalPasses = 1 /\ apps[a].sock[d].finalPasses = 1
    /\ Responded /\ resp[1].draining /\ resp[1].finalPasses = 0
    /\ resp[1].effects = <<SetConnectionClose, CallNext>>
\* the last request was handled on the reject branch of handleFinalRequests
Rejected ==
  /\ Responded /\ resp[1].draining
  /\ IsTrue(RespOptions.errorDuringExit)
  /\ ~(IsTrue(RespOptions.performLastRequest) /\ FinalRequestUnused)

C34_ServerCloseOnce ==
  /\ [](\A a \in Apps :
          /\ apps[a].serverCloseCalls <= 1
          /\ apps[a].mw.serverClosedOnce <=> apps[a].serverCloseCalls = 1
          /\ apps[a].mw.serverClosedOnce
               => apps[a].mw.draining /\ Initiated(a) /\ ~apps[a].listening)
  /\ [][\A a \in Apps :
          /\ apps[a].mw.serverClosedOnce => apps'[a].mw.serverClosedOnce
          /\ apps'[a].serverCloseCalls # apps[a].serverCloseCalls
               => apps[a].mw.draining /\ Initiated(a) /\ ~apps[a].mw.serverClosedOnce]_vars

\* server.close was invoked once although gracefulExitHandler was called
\* again and the shutdown ran to its end
C34_Witness ==
  \E a \in Apps :
    /\ apps[a].mw.serverClosedOnce /\ apps[a].serverCloseCalls = 1
    /\ apps[a].handlerCalls = 2
    /\ apps[a].mw.exitCalled /\ apps[a].mw.connectionsClosed
\* C35: with a socketio handle, when server.close has completed the handle's
\* close() is called and its members are disconnected before
\* connectionsClosed is set and before the terminal action is invoked with
\* code 0: neither happens without the disconnection, and neither happens at
\* all when the disconnection throws.
C35_SocketIOBeforeTerminalAction ==
  /\ [](\A a \in Apps :
          (Initiated(a) /\ IsDef(Options(a).socketio))
            => /\ (apps[a].mw.connectionsClosed \/ 0 \in TerminalCodes(a))
                    => /\ Options(a).socketio = Some("valid")
                       /\ apps[a].socketioCloseCalls = 1
                       /\ apps[a].socketioDisconnects = 1
               /\ apps[a].socketioDisconnects <= 1 /\ apps[a].socketioCloseCalls <= 1)
  /\ [][\A a \in Apps :
          apps'[a].socketioDisconnects # apps[a].socketioDisconnects
            => /\ apps[a].pc = "closing" /\ apps[a].connections = {}
               /\ ~apps[a].mw.connectionsClosed /\ apps'[a].mw.connectionsClosed
               /\ apps'[a].socketioCloseCalls = apps[a].socketioCloseCalls + 1]_vars

\* the graceful path ended with the socket.io clients disconnected and the
\* callback invoked with 0
C35_Witness ==
  \E a \in Apps :
    /\ Options(a).socketio = Some("valid")
    /\ apps[a].mw.connectionsClosed
    /\ apps[a].socketioCloseCalls = 1 /\ apps[a].socketioDisconnects = 1
    /\ apps[a].callbackCalls = <<0>>
\* connection tracking and destroySocketsOnHardExit do not match
TrackingMismatch(a) ==
  IsTrue(Options(a).destroySocketsOnHardExit) # apps[a].mw.trackingSockets

\* C36: a mismatch between connection tracking and destroySocketsOnHardExit
\* does not block the shutdown.  With destroySocketsOnHardExit true and
\* trackConnections never called no connection is destroyed and the hard-exit
\* path still fires the terminal action with code 1; with tracking active and
\* destroySocketsOnHardExit false no tracked connection is ever destroyed.
C36_TrackingMismatchDoesNotBlock ==
  /\ [](\A a \in Apps :
          /\ (Initiated(a) /\ TrackingMismatch(a))
               => /\ \A c \in Conns : ~apps[a].sock[c].destroyed
                  /\ apps[a].mw.draining
          /\ apps[a].mw.trackingSockets <=> apps[a].trackers > 0)
  /\ [][\A a \in Apps :
          /\ (~Initiated(a) /\ apps'[a].mw.exitRequestedDate # 0)
               => apps'[a].pc \in {"minSleep", "pollQuery"} /\ ~apps'[a].caught
          /\ (HardExitRuns(a) /\ TrackingMismatch(a))
               => /\ apps'[a].mw.exitCalled
                  /\ apps'[a].callbackCalls =
                       IF IsFunction(Options(a).callback) THEN <<1>> ELSE <<>>
                  /\ (Options(a).callback # Some("throws"))
                       => \E e \in apps'[a].exitSleeps : e.code = 1]_vars

\* sockets were to be destroyed but never tracked: the hard exit destroyed
\* none, reported code 1 and ended the process
C36_Witness ==
  \E a \in Apps :
    /\ IsTrue(Options(a).destroySocketsOnHardExit)
    /\ apps[a].trackers = 0 /\ ~apps[a].mw.trackingSockets
    /\ apps[a].connections # {} /\ ~apps[a].mw.connectionsClosed
    /\ \A c \in Conns : ~apps[a].sock[c].destroyed
    /\ apps[a].callbackCalls = <<1>>
    /\ apps[a].processExitCalls = <<1>>
\* the drain state of a Middleware object and its resolved options
DrainState(s) ==
  <<s.mw.draining, s.mw.exitRequestedDate, s.mw.serverClosedOnce,
    s.mw.connectionsClosed, s.mw.exitCalled, s.mw.options>>

\* the connection registry and its count
Registry(s) == <<s.mw.sockets, s.mw.socketCount>>

\* C37: request interception and connection tracking leave the drain state
\* and the resolved options unchanged, and the options change only when the
\* shutdown is initiated; the registry and its count change only with the
\* tracked opening or closing of a connection.
C37_DrainStateFrame ==
  [][\A a \in Apps :
       /\ (resp' # NoResponse /\ resp'[1].app = a)
            => DrainState(apps'[a]) = DrainState(apps[a])
               /\ Registry(apps'[a]) = Registry(apps[a])
       /\ apps'[a].connections # apps[a].connections
            => DrainState(apps'[a]) = DrainState(apps[a])
       /\ Registry(apps'[a]) # Registry(apps[a])
            => /\ apps'[a].connections # apps[a].connections
               /\ apps[a].trackers > 0
       /\ apps'[a].mw.options # apps[a].mw.options
            => ~Initiated(a) /\ apps'[a].mw.exitRequestedDate = now]_vars

\* a request was intercepted on a tracked connection after server.close was
\* called, and the shutdown goes on
C37_Witness ==
  \E a \in Apps :
    /\ Responded /\ resp[1].app = a /\ resp[1].draining
    /\ apps[a].mw.serverClosedOnce /\ ~apps[a].mw.exitCalled
    /\ apps[a].mw.socketCount = 1 /\ Cardinality(apps[a].mw.sockets) = 1
\* C38: unless the callback throws, the terminal action leaves no hard-exit
\* timer pending, and once it has been invoked with code 0 no timer is
\* pending in any later state: the hard-exit handler cannot run, and code 1 is
\* never reported.
C38_TimerClearedByTerminalAction ==
  \A a \in Apps :
    (Options(a).callback # Some("throws"))
      => /\ apps[a].mw.exitCalled
              => ~IsDef(apps[a].hardTimerAt) /\ ~IsDef(apps[a].mw.hardExitTimer)
         /\ 0 \in TerminalCodes(a)
              => /\ apps[a].mw.exitCalled /\ TerminalCodes(a) = {0}
                 /\ ~apps[a].unhandled
                 /\ \A c \in Conns : ~apps[a].sock[c].destroyed

\* the graceful path ended the process with code 0 after the timer had been
\* armed, and the timer is gone
C38_Witness ==
  \E a \in Apps :
    /\ IsTrue(Options(a).exitProcess) /\ Options(a).callback = Some("ok")
    /\ apps[a].mw.serverClosedOnce /\ apps[a].mw.exitCalled
    /\ ~IsDef(apps[a].hardTimerAt) /\ ~IsDef(apps[a].mw.hardExitTimer)
    /\ apps[a].callbackCalls = <<0>> /\ apps[a].processExitCalls = <<0>>
    /\ apps[a].connections = {}
\* the orchestrator is in its minimum-delay wait or in its poll loop
BeforeServerClose(a) == apps[a].pc \in {"minSleep", "pollQuery", "pollSleep"}

\* C39: the terminal action never happens before server.close has been
\* called: exitCalled implies serverClosedOnce, a callback with code 0
\* implies connectionsClosed, and during the minimum-delay wait and the poll
\* loop there is no hard-exit timer and nothing has been reported.
C39_NoTerminalActionBeforeClose ==
  \A a \in Apps :
    /\ apps[a].mw.exitCalled => apps[a].mw.serverClosedOnce
    /\ (\E i \in DOMAIN apps[a].callbackCalls : apps[a].callbackCalls[i] = 0)
         => apps[a].mw.connectionsClosed
    /\ BeforeServerClose(a)
         => /\ ~IsDef(apps[a].hardTimerAt) /\ ~IsDef(apps[a].mw.hardExitTimer)
            /\ ~apps[a].mw.serverClosedOnce /\ ~apps[a].mw.exitCalled
            /\ TerminalCodes(a) = {}

\* the poll loop goes on after hardExitTimeout has elapsed, with a connection
\* open, no timer and nothing reported
C39_Witness ==
  \E a \in Apps :
    /\ apps[a].pc = "pollSleep"
    /\ Elapsed(a) > Val(Options(a).hardExitTimeout)
    /\ apps[a].connections # {}
    /\ ~IsDef(apps[a].hardTimerAt) /\ ~apps[a].mw.exitCalled
\* the hard-exit handler would take its branch for connectionsClosed: the
\* timer is pending although server.close has completed
ClosedBranchPending(a) ==
  IsDef(apps[a].hardTimerAt) /\ apps[a].mw.connectionsClosed

\* C40: when neither the callback nor the socketio handle throws, the
\* hard-exit handler never finds connectionsClosed true: the step that sets
\* connectionsClosed runs exit(0), which clears the timer, so no timer is
\* pending once connectionsClosed is set and process.exit(1) is never called
\* after a callback that received 0.
C40_ClosedBranchUnreachable ==
  /\ [](\A a \in Apps :
          Options(a).callback # Some("throws")
            => /\ ~ClosedBranchPending(a)
               /\ ~(0 \in TerminalCodes(a) /\ 1 \in TerminalCodes(a))
               /\ Options(a).socketio = Some("invalid") => ~apps[a].mw.connectionsClosed)
  /\ [][\A a \in Apps :
          /\ (~apps[a].mw.connectionsClosed /\ apps'[a].mw.connectionsClosed)
               => /\ apps'[a].mw.exitCalled
                  /\ Options(a).callback # Some("throws") => ~IsDef(apps'[a].hardTimerAt)
          /\ DirectProcessExit(a, 1) => Options(a).callback = Some("throws")]_vars

\* server.close completed with a socket.io handle and a callback, after the
\* timer had been armed: the timer is gone and the process ended with code 0
C40_Witness ==
  \E a \in Apps :
    /\ Options(a).socketio = Some("valid") /\ Options(a).callback = Some("ok")
    /\ IsTrue(Options(a).exitProcess)
    /\ apps[a].mw.connectionsClosed /\ apps[a].mw.exitCalled
    /\ ~IsDef(apps[a].hardTimerAt)
    /\ apps[a].processExitCalls = <<0>>
====
